---------------------------- MODULE Spec2Model ----------------------------
(***************************************************************************)
(* State-machine model of the lab5 Compute Engine scripts:                 *)
(*   part1-final.py  (firewall, base VM, tags, read, list)                 *)
(*   part2-final.py  (boot-disk snapshot, three timed clones, TIMING.md)   *)
(*   part3-final.py  (firewall, VM-1 carrying the launcher payloads)       *)
(*   the launcher generated by build_vm1_launcher_py (runs on VM-1)        *)
(*   clean-up.py     (confirmed teardown)                                  *)
(* One behaviour is one invocation of one script against a provider whose  *)
(* answers (operation status records, HTTP errors) are nondeterministic.   *)
(***************************************************************************)
EXTENDS Integers, Sequences, FiniteSets, TLC

\* ------------------------------------------------------------------ bounds

\* Status requests one poll loop may issue before the model stops following it.
MaxPolls == 3
\* Number of disks an instances.get response may list.
MaxDisks == 2
\* Largest tags fingerprint the provider hands out.
MaxFp == 2

\* ------------------------------------------------------- names and values

Scripts == {"part1", "part2", "part3", "launcher", "cleanup"}

\* argparse defaults: --name / --instance, --vm1-name, --vm2-name
BaseInstance == "blog-instance"
Vm1Name == "vm-1"
Vm2Name == "vm-2-flask"

\* f"{base_instance}-clone-{i}"
CloneName(i) == <<BaseInstance, "clone", i>>
\* f"base-snapshot-{instance_name}"
SnapshotName == <<"base-snapshot", BaseInstance>>

CloneCount == 3

InstanceNames == {<<BaseInstance>>, <<Vm1Name>>, <<Vm2Name>>}
                   \cup {CloneName(i) : i \in 1..CloneCount}

RuleNames == {"allow-5000", "default-allow-ssh"}

\* Marks an absent key of a JSON record / a None value.
Absent == "<absent>"

\* HTTP failures the client library raises as HttpError (a not-found and one
\* representative of every other status).
HttpErrors == {404, 500}

\* Operation records the provider can answer a status request with.
Statuses == {"PENDING", "RUNNING", "DONE"}
StatusRecords(op) == [status : Statuses, name : {op}, error : {Absent, "QUOTA_EXCEEDED"}]

NoOp == [id |-> 0, scope |-> "none", kind |-> "none", target |-> <<>>]

\* One executed request, as the script's history records it.
Call(api, target, op, body, http, resp) ==
    [api |-> api, target |-> target, op |-> op, body |-> body, http |-> http,
     resp |-> resp]

NoBody == [none |-> TRUE]

NoCall == Call("none", <<>>, 0, NoBody, 0, 0)

\* ---------------------------------------------------------------- strings

\* str.lower() on the characters the confirmation prompt is modelled with.
LowerChar(c) ==
    CASE c = "Y" -> "y"
      [] c = "E" -> "e"
      [] c = "S" -> "s"
      [] c = "N" -> "n"
      [] c = "O" -> "o"
      [] OTHER -> c

Lower(s) == [k \in 1..Len(s) |-> LowerChar(s[k])]

ConfirmInputs ==
    { <<"y","e","s">>, <<"Y","e","S">>, <<"n","o">>, <<"y">>, <<>>,
      <<"y","e","s"," ">> }

\* A test that looks at the first letter of the input only.
Confirmed_FirstLetter(input) == input # <<>> /\ LowerChar(input[1]) = "y"

\* confirm.lower() != "yes"  (clean-up.py:82), negated
Confirmed(input) == Lower(input) = <<"y","e","s">>

\* -------------------------------------------------------- pure functions

\* A scan that looks at the first rule of the list only.
firewall_rule_exists_FirstOnly(items, name) ==
    Len(items) > 0 /\ items[1] = name

\* firewall_rule_exists: scan resp.get("items", []) for a rule with that name
firewall_rule_exists(items, name) ==
    \E k \in 1..Len(items) : items[k] = name

\* request body built by ensure_allow_5000_firewall
FirewallBody(network_tag) ==
    [ name |-> "allow-5000",
      network |-> "global/networks/default",
      direction |-> "INGRESS",
      priority |-> 1000,
      sourceRanges |-> <<"0.0.0.0/0">>,
      targetTags |-> <<network_tag>>,
      allowed |-> << [IPProtocol |-> "tcp", ports |-> <<"5000">>] >> ]

\* A disk source URL is the sequence of its "/"-separated segments.
\* source.split("/disks/")[-1]: what follows the last "/disks/"; "/disks/" occurs
\* where a segment "disks" has a segment before it and one after it.
DisksAt(source) ==
    {k \in 2..(Len(source) - 1) : source[k] = "disks"}

SplitDisksLast(source) ==
    IF DisksAt(source) = {} THEN source
    ELSE LET k == CHOOSE j \in DisksAt(source) : \A m \in DisksAt(source) : m <= j
         IN  SubSeq(source, k + 1, Len(source))

\* A resolution that takes disks[0] without looking for the boot flag.
BootDiskIndex_AlwaysFirst(disks) == 1

\* the loop of get_boot_disk_name: first disk with a truthy "boot", else disks[0]
BootDiskIndex(disks) ==
    IF \E k \in 1..Len(disks) : disks[k].boot
    THEN CHOOSE k \in 1..Len(disks) :
            disks[k].boot /\ \A m \in 1..(k - 1) : ~disks[m].boot
    ELSE 1

\* A resolution that splits whatever boot.get("source") gave, without the
\* test for a missing source.
get_boot_disk_name_NoSourceTest(disks) ==
    IF Len(disks) = 0
    THEN [ok |-> FALSE, error |-> "No disks found on instance", name |-> <<>>]
    ELSE [ok |-> TRUE, error |-> Absent,
          name |-> SplitDisksLast(disks[BootDiskIndex(disks)].source)]

\* get_boot_disk_name after the instances.get: a disk name, or a RuntimeError
get_boot_disk_name(disks) ==
    IF Len(disks) = 0
    THEN [ok |-> FALSE, error |-> "No disks found on instance", name |-> <<>>]
    ELSE LET boot == disks[BootDiskIndex(disks)]
         IN  IF boot.source = <<>>
             THEN [ok |-> FALSE, error |-> "Could not find boot disk 'source' URL",
                   name |-> <<>>]
             ELSE [ok |-> TRUE, error |-> Absent, name |-> SplitDisksLast(boot.source)]

\* Source URLs an attached disk may carry (<<>>: no "source" key).
DiskSources ==
    { <<>>,
      <<"projects", "p", "zones", "z", "disks", "d1">>,
      <<"projects", "disks", "zones", "z", "disks", "d2">>,
      <<"d3">> }

Disks == [boot : BOOLEAN, source : DiskSources]

RECURSIVE SeqsUpTo(_, _)
SeqsUpTo(S, n) ==
    IF n = 0 THEN {<<>>}
    ELSE LET shorter == SeqsUpTo(S, n - 1)
         IN  shorter \cup {Append(s, x) : s \in {t \in shorter : Len(t) = n - 1}, x \in S}

DiskLists == SeqsUpTo(Disks, MaxDisks)

\* ----------------------------------------------------------- the pollers

\* Pollers that all skip the error test, as clean-up.py's do.
PollerChecksError_Never(s) == FALSE

\* Whether the script's poller inspects "error" on a DONE record:
\* part1/part2/part3 and the launcher do, clean-up.py's pollers do not.
PollerChecksError(s) == s # "cleanup"

\* What the poller hands back on DONE: the record (part1, part2, part3) or None.
PollerReturnsRecord(s) == s \in {"part1", "part2", "part3"}

\* A poller that takes any status but PENDING for completion.
PollOutcome_NotPending(s, result) ==
    IF result.status # "PENDING"
    THEN IF PollerChecksError(s) /\ result.error # Absent
         THEN "raise"
         ELSE "return"
    ELSE "sleep"

\* A poller whose completion test never matches (it compares with "done").
PollOutcome_NeverDone(s, result) ==
    IF result.status = "done"
    THEN IF PollerChecksError(s) /\ result.error # Absent
         THEN "raise"
         ELSE "return"
    ELSE "sleep"

\* A poller that returns after its first status request, whatever it says.
PollOutcome_ReturnsAtOnce(s, result) == "return"

\* One pass of the loop body after the status request returned `result`.
PollOutcome(s, result) ==
    IF result.status = "DONE"
    THEN IF PollerChecksError(s) /\ result.error # Absent
         THEN "raise"
         ELSE "return"
    ELSE "sleep"


\* ------------------------------------------------------------------ state

VARIABLES
    script,      \* which script this invocation runs
    pc,          \* position of the script
    retpc,       \* where the running poller returns to
    fwRules,     \* provider: names of the project's firewall rules
    instances,   \* provider: names of the zone's instances
    snapshots,   \* provider: names of the project's snapshots
    tags,        \* provider: the base instance's tags [items, fingerprint]
    ops,         \* operations the script's mutating calls were answered with
    curOp,       \* the operation the poller was last called with
    responses,   \* status records the poller received for curOp, in order
    doneOps,     \* ids of the operations a poller saw reach DONE
    ret,         \* what the last poller call handed back
    raised,      \* the exception that ended the script
    calls,       \* the requests the script executed, status polls aside, in order
    lastCall,    \* the request the script executed last, status polls included
    polls,       \* status requests the poller issued for curOp
    log,         \* the lines the teardown script printed
    fingerprint, \* set_instance_tags: local fingerprint
    disk_name,   \* create_snapshot_from_instance_boot_disk: local disk_name
    i,           \* part2 main: loop variable
    results,     \* part2 main: results
    file,        \* TIMING.md, as its lines
    delIdx,      \* clean-up main: index of the deletion in progress
    confirm,     \* clean-up main: the line read from the prompt
    disks,       \* get_boot_disk_name: the disks of the instances.get response,
                 \* kept while the snapshot resolved from them is in progress
    peer,        \* a second, concurrent invocation of ensure_allow_5000_firewall
                 \* on the same project: its position and its requests
    vmFiles      \* VM-1: the files its boot script wrote under /opt/part3

provider == <<fwRules, instances, snapshots, tags>>
poller == <<retpc, ops, curOp, responses, polls, doneOps, ret>>
locals == <<fingerprint, disk_name, i, results, file, delIdx, confirm, disks>>
history == <<calls, lastCall>>
vars == <<script, pc, raised, history, log, provider, poller, locals, peer, vmFiles>>

NoExc == [type |-> "none", status |-> 0, payload |-> Absent]
NoRet == [kind |-> "none", record |-> Absent]
NoFile == << "<no file>" >>

\* The position each script's main starts at.
Entry(s) ==
    CASE s \in {"part1", "part3"} -> "fw_list"
      [] s = "part2" -> "disk_get"
      [] s = "launcher" -> "vm1_boot"
      [] s = "cleanup" -> "confirm"

Clones(n) == {CloneName(k) : k \in 1..n}

\* What the lab's earlier scripts can have left at the provider when the
\* teardown starts: nothing, part1's instance, part2 stopped after the first
\* clone, part1 and part2 complete, all of it without the base instance, and
\* all three parts complete.
LabWorlds ==
    { [instances |-> {}, snapshots |-> {}],
      [instances |-> {<<BaseInstance>>}, snapshots |-> {}],
      [instances |-> {<<BaseInstance>>} \cup Clones(1), snapshots |-> {SnapshotName}],
      [instances |-> {<<BaseInstance>>} \cup Clones(CloneCount),
       snapshots |-> {SnapshotName}],
      [instances |-> Clones(CloneCount) \cup {<<Vm1Name>>}, snapshots |-> {SnapshotName}],
      [instances |-> InstanceNames, snapshots |-> {SnapshotName}] }

\* The provider as each script can find it.
StartWorlds(s) ==
    CASE s = "cleanup" -> LabWorlds
      [] s = "part2" -> {[instances |-> {<<BaseInstance>>}, snapshots |-> {}]}
      [] s = "launcher" -> {[instances |-> {<<Vm1Name>>}, snapshots |-> {}]}
      [] OTHER -> {[instances |-> {}, snapshots |-> {}]}

StartRules(s) == IF s \in {"part1", "part3"} THEN SUBSET RuleNames ELSE {{"allow-5000"}}

NoPeer == [pc |-> "none", calls |-> <<>>]

\* /opt/part3 before the boot script of VM-1 has run.
NoFiles == [launcher |-> Absent, vm2_startup |-> Absent]

\* The state one invocation of a script starts in.
Start ==
    /\ script \in Scripts
    /\ pc = Entry(script)
    /\ retpc = "none"
    /\ fwRules \in StartRules(script)
    /\ \E w \in StartWorlds(script) :
          /\ instances = w.instances
          /\ snapshots = w.snapshots
    /\ tags = [items |-> {"allow-5000"}, fingerprint |-> 0]
    /\ ops = <<>>
    /\ curOp = NoOp
    /\ responses = <<>>
    /\ doneOps = {}
    /\ ret = NoRet
    /\ raised = NoExc
    /\ calls = <<>>
    /\ lastCall = NoCall
    /\ polls = 0
    /\ log = <<>>
    /\ fingerprint = -1
    /\ disk_name = <<>>
    /\ i = 0
    /\ results = <<>>
    /\ file = NoFile
    /\ delIdx = 0
    /\ confirm = <<>>
    /\ disks = <<>>
    /\ vmFiles = NoFiles

\* One script runs alone.
Init == Start /\ peer = NoPeer

\* --------------------------------------------------------------- requests

Outcomes == {200} \cup HttpErrors

\* The script executes request c (any request but a status poll).
Request(c) ==
    /\ calls' = Append(calls, c)
    /\ lastCall' = c

\* An uncaught exception ends the script.
Raise(type, status, payload) ==
    /\ raised' = [type |-> type, status |-> status, payload |-> payload]
    /\ pc' = "aborted"

\* A mutating request was answered with a new operation: enter the poller.
Submit(scope, kind, target, after) ==
    /\ ops' = Append(ops, [id |-> Len(ops) + 1, scope |-> scope, kind |-> kind,
                           target |-> target])
    /\ curOp' = ops'[Len(ops')]
    /\ responses' = <<>>
    /\ polls' = 0
    /\ ret' = NoRet
    /\ retpc' = after
    /\ pc' = "poll"
    /\ UNCHANGED doneOps

\* An ensure that goes on to the insert whatever the list holds.
ExistsBranch_AlwaysInsert(items) == "fw_insert"

\* ensure_allow_5000_firewall up to the existence test (firewall_rule_exists)
\* items: the provider's rules in the order the list response carries them.
ExistsBranch(items) ==
    IF firewall_rule_exists(items, "allow-5000") THEN "img_get" ELSE "fw_insert"

RuleLists == {s \in SeqsUpTo(RuleNames, Cardinality(RuleNames)) :
                 /\ {s[k] : k \in 1..Len(s)} = fwRules
                 /\ Len(s) = Cardinality(fwRules)}

EnsureFirewall_List ==
    /\ pc = "fw_list"
    /\ \E http \in Outcomes, items \in RuleLists :
          /\ Request(Call("firewalls.list", <<>>, 0, NoBody, http,
                          IF http = 200 THEN items ELSE <<>>))
          /\ IF http # 200
             THEN Raise("HttpError", http, Absent)
             ELSE /\ pc' = ExistsBranch(items)
                  /\ UNCHANGED raised
    /\ UNCHANGED <<script, log, provider, poller, locals>>
    /\ UNCHANGED peer
    /\ UNCHANGED vmFiles

\* ensure_allow_5000_firewall: the insert and the hand-over to the global poller
FirewallInsertScope == "global"

EnsureFirewall_Insert ==
    /\ pc = "fw_insert"
    /\ \E http \in Outcomes :
          /\ Request(Call("firewalls.insert", <<>>, 0,
                                         FirewallBody("allow-5000"), http, 0))
          /\ IF http # 200
             THEN /\ Raise("HttpError", http, Absent)
                  /\ UNCHANGED poller
             ELSE /\ Submit(FirewallInsertScope, "firewalls.insert", <<"allow-5000">>,
                            "img_get")
                  /\ UNCHANGED raised
    /\ UNCHANGED <<script, log, provider, locals>>
    /\ UNCHANGED peer
    /\ UNCHANGED vmFiles

\* ------------------------------------------------------------ the poll loop

\* The status endpoint of each poller.
PollApi(scope) ==
    IF scope = "global" THEN "globalOperations.get" ELSE "zoneOperations.get"

\* The provider's state once the operation has completed without error.
EffectRules(op) ==
    IF op.kind = "firewalls.insert" THEN fwRules \cup {"allow-5000"} ELSE fwRules

EffectInstances(op) ==
    CASE op.kind = "instances.insert" -> instances \cup {op.target}
      [] op.kind = "instances.delete" -> instances \ {op.target}
      [] OTHER -> instances

EffectSnapshots(op) ==
    CASE op.kind = "disks.createSnapshot" -> snapshots \cup {SnapshotName}
      [] op.kind = "snapshots.delete" -> snapshots \ {op.target}
      [] OTHER -> snapshots

\* clean-up.py main: the deletions in the order main attempts them
DeletePlan ==
    [k \in 1..CloneCount |-> [kind |-> "instance", name |-> CloneName(k)]]
      \o << [kind |-> "instance", name |-> <<BaseInstance>>],
            [kind |-> "snapshot", name |-> SnapshotName] >>

Line(msg, name) == [msg |-> msg, name |-> name]

\* clean-up.py main after one delete_instance / delete_snapshot returned,
\* having printed `lines`
NextDeletion(lines) ==
    IF delIdx < Len(DeletePlan)
    THEN /\ delIdx' = delIdx + 1
         /\ pc' = "delete"
         /\ log' = log \o lines
    ELSE /\ delIdx' = delIdx
         /\ pc' = "done"
         /\ log' = log \o lines \o <<Line("Cleanup complete.", <<>>)>>

\* A handler that re-raises whatever it catches.
HandlerSwallows_Never(status) == FALSE

\* A handler that treats every HttpError as "already deleted".
HandlerSwallows_All(status) == TRUE

\* What `except HttpError as e` of delete_instance / delete_snapshot does with
\* the status of the error: swallow a 404, re-raise anything else.
HandlerSwallows(status) == status = 404

DeleteHandler(status, printed) ==
    IF HandlerSwallows(status)
    THEN /\ NextDeletion(printed \o <<Line("not found (already deleted)",
                                           DeletePlan[delIdx].name)>>)
         /\ UNCHANGED raised
    ELSE /\ Raise("HttpError", status, Absent)
         /\ log' = log \o printed
         /\ UNCHANGED delIdx

\* The request of one pass of `while True`: operations.get(...).execute().
\* beyond: the pass is one past the MaxPolls passes the model counts; it is
\* not counted, and its record takes the place of the last one kept.
StatusRequest(beyond) ==
    \E http \in Outcomes :
       /\ lastCall' = Call(PollApi(curOp.scope), <<>>, curOp.id, NoBody, http, 0)
       /\ polls' = IF beyond THEN polls ELSE polls + 1
       /\ IF http # 200
          THEN /\ IF script = "cleanup"
                  THEN DeleteHandler(http, <<>>)
                  ELSE Raise("HttpError", http, Absent) /\ UNCHANGED <<log, delIdx>>
               /\ UNCHANGED <<responses, fwRules, instances, snapshots>>
          ELSE \E result \in StatusRecords(curOp.id) :
                  /\ responses' = IF beyond
                                  THEN [responses EXCEPT ![Len(responses)] = result]
                                  ELSE Append(responses, result)
                  /\ pc' = "poll_check"
                  /\ IF result.status = "DONE" /\ result.error = Absent
                     THEN /\ fwRules' = EffectRules(curOp)
                          /\ instances' = EffectInstances(curOp)
                          /\ snapshots' = EffectSnapshots(curOp)
                     ELSE UNCHANGED <<fwRules, instances, snapshots>>
                  /\ UNCHANGED <<raised, log, delIdx>>

Wait_Get ==
    /\ pc = "poll"
    /\ polls < MaxPolls
    /\ StatusRequest(FALSE)
    /\ UNCHANGED <<script, calls, tags, retpc, ops, curOp, doneOps, ret>>
    /\ UNCHANGED <<fingerprint, disk_name, i, results, file, confirm, disks>>
    /\ UNCHANGED peer
    /\ UNCHANGED vmFiles

\* The same request in a loop that has already run MaxPolls passes: the loop
\* has no bound of its own.
Wait_GetBeyond ==
    /\ pc = "poll"
    /\ polls >= MaxPolls
    /\ StatusRequest(TRUE)
    /\ UNCHANGED <<script, calls, tags, retpc, ops, curOp, doneOps, ret>>
    /\ UNCHANGED <<fingerprint, disk_name, i, results, file, confirm, disks>>
    /\ UNCHANGED peer
    /\ UNCHANGED vmFiles

\* A poller that ends with a bare `return`.
PollerReturn_None(s, result) == [kind |-> "None", record |-> Absent]

\* What the poller returns for the DONE record `result`.
PollerReturn(s, result) ==
    IF PollerReturnsRecord(s)
    THEN [kind |-> "record", record |-> result]
    ELSE [kind |-> "None", record |-> Absent]

\* The rest of the pass: the DONE test, the error test, return or sleep(1)
Wait_Check ==
    /\ pc = "poll_check"
    /\ LET result == responses[Len(responses)]
           outcome == PollOutcome(script, result)
       IN  CASE outcome = "raise" ->
                  /\ Raise("Exception", 0, result.error)
                  /\ doneOps' = doneOps \cup {curOp.id}
                  /\ UNCHANGED ret
             [] outcome = "return" ->
                  /\ ret' = PollerReturn(script, result)
                  /\ pc' = retpc
                  /\ doneOps' = doneOps \cup {curOp.id}
                  /\ UNCHANGED raised
             [] outcome = "sleep" ->
                  /\ pc' = "poll"
                  /\ UNCHANGED <<raised, ret, doneOps>>
    /\ UNCHANGED <<script, history, log, provider, retpc, ops, curOp, responses, polls,
                   locals>>
    /\ UNCHANGED peer
    /\ UNCHANGED vmFiles

\* ------------------------------------------------------ instance creation

ImageLink == "ubuntu-os-cloud/ubuntu-2204-lts"

Item(key, value) == [key |-> key, value |-> value]

\* The insert body each script assembles (create_instance of part1,
\* create_vm1_instance of part3, main of the launcher).
InstanceConfig(s) ==
    CASE s = "part1" ->
            [name |-> <<BaseInstance>>, tags |-> <<"allow-5000">>,
             source |-> ImageLink, email |-> "default",
             metadata |-> <<Item("startup-script", "startup-script.sh")>>]
      [] s = "part3" ->
            [name |-> <<Vm1Name>>, tags |-> <<>>,
             source |-> ImageLink, email |-> "default",
             metadata |-> <<Item("startup-script", "vm1_startup_script"),
                            Item("vm1-launcher-py", "vm1_launcher_py"),
                            Item("vm2-startup-script", "vm2_startup_script")>>]
      [] s = "launcher" ->
            [name |-> <<Vm2Name>>, tags |-> <<"allow-5000">>,
             source |-> ImageLink, email |-> "default",
             metadata |-> <<Item("startup-script", vmFiles.vm2_startup)>>]

\* Where each main continues once the insert's operation is DONE.
AfterInsert(s) ==
    CASE s = "part1" -> "tags_get"
      [] s = "part3" -> "done"
      [] s = "launcher" -> "ip_get"

\* ------------------------------------------------- VM-1's boot script

\* The metadata VM-1 was created with: what part3 attached.
Vm1Metadata == InstanceConfig("part3").metadata

\* fetch_attr: the value of VM-1's metadata attribute `key` (Absent: curl -f
\* fails, there is no such attribute).
fetch_attr(key) ==
    IF \E k \in 1..Len(Vm1Metadata) : Vm1Metadata[k].key = key
    THEN Vm1Metadata[CHOOSE k \in 1..Len(Vm1Metadata) : Vm1Metadata[k].key = key].value
    ELSE Absent

\* A boot script that stores VM-1's own startup-script as vm2-startup.sh.
BootFetches_OwnStartupScript ==
    [launcher |-> fetch_attr("vm1-launcher-py"),
     vm2_startup |-> fetch_attr("startup-script")]

\* fetch_attr "vm1-launcher-py" > vm1-launcher.py
\* fetch_attr "vm2-startup-script" > vm2-startup.sh
BootFetches ==
    [launcher |-> fetch_attr("vm1-launcher-py"),
     vm2_startup |-> fetch_attr("vm2-startup-script")]

\* VM-1's startup script from the downloads to `python3 vm1-launcher.py`; under
\* `set -e` a failed download ends it before the launcher runs. The launcher's
\* main starts by reading vm2-startup.sh.
Vm1Boot ==
    /\ pc = "vm1_boot"
    /\ \E http \in Outcomes :
          IF http # 200 \/ BootFetches.launcher = Absent
                        \/ BootFetches.vm2_startup = Absent
          THEN /\ Raise("BootScriptError", http, Absent)
               /\ UNCHANGED vmFiles
          ELSE /\ vmFiles' = BootFetches
               /\ pc' = "img_get"
               /\ UNCHANGED raised
    /\ UNCHANGED <<script, history, log, provider, poller, locals, peer>>

\* images().getFromFamily(...).execute()
CreateInstance_Image ==
    /\ pc = "img_get"
    /\ \E http \in Outcomes :
          /\ Request(Call("images.getFromFamily", <<>>, 0, NoBody, http, 0))
          /\ IF http # 200
             THEN Raise("HttpError", http, Absent)
             ELSE pc' = "inst_insert" /\ UNCHANGED raised
    /\ UNCHANGED <<script, log, provider, poller, locals>>
    /\ UNCHANGED peer
    /\ UNCHANGED vmFiles

\* instances().insert(...).execute(), and main's call of the zonal poller
CreateInstance_Insert ==
    /\ pc = "inst_insert"
    /\ \E http \in Outcomes :
          /\ Request(Call("instances.insert", InstanceConfig(script).name,
                                         0, InstanceConfig(script), http, 0))
          /\ IF http # 200
             THEN /\ Raise("HttpError", http, Absent)
                  /\ UNCHANGED poller
             ELSE /\ Submit("zone", "instances.insert", InstanceConfig(script).name,
                            AfterInsert(script))
                  /\ UNCHANGED raised
    /\ UNCHANGED <<script, log, provider, locals>>
    /\ UNCHANGED peer
    /\ UNCHANGED vmFiles

\* ------------------------------------------------------------ part1: tags

\* set_instance_tags: instances().get and the fingerprint it reads
SetInstanceTags_Get ==
    /\ pc = "tags_get"
    /\ \E http \in Outcomes :
          /\ Request(Call("instances.get", <<BaseInstance>>, 0, NoBody, http,
                                         IF http = 200 THEN tags.fingerprint ELSE 0))
          /\ IF http # 200
             THEN Raise("HttpError", http, Absent) /\ UNCHANGED fingerprint
             ELSE /\ fingerprint' = tags.fingerprint
                  /\ pc' = "tags_set"
                  /\ UNCHANGED raised
    /\ UNCHANGED <<script, log, provider, poller>>
    /\ UNCHANGED <<disk_name, i, results, file, delIdx, confirm, disks>>
    /\ UNCHANGED peer
    /\ UNCHANGED vmFiles

\* A body that carries the fingerprint of a fresh instance instead of the one read.
TagsBody_FixedFingerprint(items, fp) == [items |-> items, fingerprint |-> 0]

\* body of the setTags request
TagsBody(items, fp) == [items |-> items, fingerprint |-> fp]

\* The provider's answers to a setTags carrying fingerprint fp: 412 when it is
\* not the instance's current one.
SetTagsOutcomes(fp) == IF fp = tags.fingerprint THEN Outcomes ELSE {412} \cup HttpErrors

\* A set_instance_tags that reads the fingerprint again and retries when the
\* provider rejects the one it sent.
SetTagsRetry_OnPreconditionFailed(http) == http = 412

\* A set_instance_tags that starts over after any HttpError of its setTags.
SetTagsRetry_Always(http) == TRUE

\* Whether an HttpError of the setTags request is caught and the update tried
\* again: neither set_instance_tags nor main has a handler or a loop.
SetTagsRetry(http) == FALSE

\* set_instance_tags: instances().setTags, and main's call of the zonal poller
SetInstanceTags_SetTags ==
    /\ pc = "tags_set"
    /\ LET body == TagsBody(<<"allow-5000">>, fingerprint)
       IN  \E http \in SetTagsOutcomes(body.fingerprint) :
              /\ Request(Call("instances.setTags", <<BaseInstance>>, 0, body,
                                             http, 0))
              /\ IF http # 200
                 THEN /\ IF SetTagsRetry(http)
                         THEN pc' = "tags_get" /\ UNCHANGED raised
                         ELSE Raise("HttpError", http, Absent)
                      /\ UNCHANGED <<poller, tags>>
                 ELSE /\ Submit("zone", "instances.setTags", <<BaseInstance>>, "ip_get")
                      /\ tags' = [items |-> {"allow-5000"},
                                  fingerprint |-> tags.fingerprint + 1]
                      /\ UNCHANGED raised
    /\ UNCHANGED <<script, log, fwRules, instances, snapshots, locals>>
    /\ UNCHANGED peer
    /\ UNCHANGED vmFiles

\* Another client of the project updates the instance's tags.
OtherActorSetTags ==
    /\ script = "part1"
    /\ pc \notin {"done", "aborted"}
    /\ <<BaseInstance>> \in instances
    /\ tags.fingerprint + 1 < MaxFp
    /\ tags' = [items |-> {"other"}, fingerprint |-> tags.fingerprint + 1]
    /\ UNCHANGED <<script, pc, raised, history, log, fwRules, instances, snapshots,
                   poller, locals>>
    /\ UNCHANGED peer
    /\ UNCHANGED vmFiles

\* get_instance_external_ip (part1 main, launcher main)
GetInstanceExternalIp ==
    /\ pc = "ip_get"
    /\ \E http \in Outcomes :
          /\ Request(Call("instances.get", InstanceConfig(script).name, 0,
                                         NoBody, http, 0))
          /\ IF http # 200
             THEN Raise("HttpError", http, Absent)
             ELSE /\ pc' = IF script = "part1" THEN "inst_list" ELSE "done"
                  /\ UNCHANGED raised
    /\ UNCHANGED <<script, log, provider, poller, locals>>
    /\ UNCHANGED peer
    /\ UNCHANGED vmFiles

\* list_instances (part1 main)
ListInstances ==
    /\ pc = "inst_list"
    /\ \E http \in Outcomes :
          /\ Request(Call("instances.list", <<>>, 0, NoBody, http, 0))
          /\ IF http # 200
             THEN Raise("HttpError", http, Absent)
             ELSE pc' = "done" /\ UNCHANGED raised
    /\ UNCHANGED <<script, log, provider, poller, locals>>
    /\ UNCHANGED peer
    /\ UNCHANGED vmFiles

\* ------------------------------------------------------------------ part2

\* get_boot_disk_name, called by create_snapshot_from_instance_boot_disk
GetBootDiskName ==
    /\ pc = "disk_get"
    /\ \E http \in Outcomes :
          /\ Request(Call("instances.get", <<BaseInstance>>, 0, NoBody, http, 0))
          /\ IF http # 200
             THEN /\ Raise("HttpError", http, Absent)
                  /\ UNCHANGED <<disks, disk_name>>
             ELSE \E listed \in DiskLists :
                     /\ disks' = listed
                     /\ IF get_boot_disk_name(listed).ok
                        THEN /\ disk_name' = get_boot_disk_name(listed).name
                             /\ pc' = "snap_create"
                             /\ UNCHANGED raised
                        ELSE /\ Raise("RuntimeError", 0, get_boot_disk_name(listed).error)
                             /\ UNCHANGED disk_name
    /\ UNCHANGED <<script, log, provider, poller>>
    /\ UNCHANGED <<fingerprint, i, results, file, delIdx, confirm>>
    /\ UNCHANGED peer
    /\ UNCHANGED vmFiles

\* The disk the createSnapshot request names.
SnapshotDisk == disk_name

\* create_snapshot_from_instance_boot_disk: disks().createSnapshot and the poller
CreateSnapshot ==
    /\ pc = "snap_create"
    /\ \E http \in Outcomes :
          /\ Request(Call("disks.createSnapshot", SnapshotDisk, 0,
                                         [name |-> SnapshotName], http, 0))
          /\ IF http # 200
             THEN /\ Raise("HttpError", http, Absent)
                  /\ UNCHANGED poller
             ELSE /\ Submit("zone", "disks.createSnapshot", SnapshotDisk, "clone_insert")
                  /\ UNCHANGED raised
    /\ UNCHANGED <<script, log, provider, locals>>
    /\ UNCHANGED peer
    /\ UNCHANGED vmFiles

\* A clone built from the public image, as create_instance of part1 builds its
\* VM, instead of from the snapshot.
CloneConfig_FromImage(k) ==
    [name |-> CloneName(k), tags |-> <<"allow-5000">>, source |-> <<ImageLink>>]

\* config of time_create_clone
CloneConfig(k) ==
    [name |-> CloneName(k), tags |-> <<"allow-5000">>,
     source |-> <<"global", "snapshots", SnapshotName>>]

\* the values `for i in range(1, 4)` still has to take
NextClone(k) == k + 1

\* main's loop step and time_create_clone up to the poller
TimeCreateClone_Insert ==
    /\ pc = "clone_insert"
    /\ i' = NextClone(i)
    /\ \E http \in Outcomes :
          /\ Request(Call("instances.insert", CloneName(i'), 0,
                                         CloneConfig(i'), http, 0))
          /\ IF http # 200
             THEN /\ Raise("HttpError", http, Absent)
                  /\ UNCHANGED poller
             ELSE /\ Submit("zone", "instances.insert", CloneName(i'), "clone_timed")
                  /\ UNCHANGED raised
    /\ disks' = <<>>
    /\ UNCHANGED <<script, log, provider>>
    /\ UNCHANGED <<fingerprint, disk_name, results, file, delIdx, confirm>>
    /\ UNCHANGED peer
    /\ UNCHANGED vmFiles

\* t1_real - t0_real: the clock advances by the sleep(1) calls of the poll loop
\* that ran in between, one after each response but the last.
Elapsed == Len(responses) - 1

\* the record time_create_clone returns
Timing(name, real) == [instance |-> name, real_seconds |-> real]

\* A loop over range(1, 3).
LoopDone_OffByOne(k) == k >= CloneCount - 1

\* whether range(1, 4) is exhausted after iteration k
LoopDone(k) == k >= CloneCount

\* time_create_clone's return and results.append(...)
TimeCreateClone_Return ==
    /\ pc = "clone_timed"
    /\ results' = Append(results, Timing(CloneName(i), Elapsed))
    /\ pc' = IF LoopDone(i) THEN "write_md" ELSE "clone_insert"
    /\ UNCHANGED <<script, raised, history, log, provider, poller>>
    /\ UNCHANGED <<fingerprint, disk_name, i, file, delIdx, confirm, disks>>
    /\ UNCHANGED peer
    /\ UNCHANGED vmFiles

\* the lines write_timing_md writes
TimingLines(rs) ==
    << [kind |-> "title", instance |-> <<>>, real_seconds |-> 0],
       [kind |-> "header", instance |-> <<>>, real_seconds |-> 0],
       [kind |-> "delimiter", instance |-> <<>>, real_seconds |-> 0] >>
      \o [k \in 1..Len(rs) |->
            [kind |-> "row", instance |-> rs[k].instance,
             real_seconds |-> rs[k].real_seconds]]

WriteTimingMd ==
    /\ pc = "write_md"
    /\ file' = TimingLines(results)
    /\ pc' = "done"
    /\ UNCHANGED <<script, raised, history, log, provider, poller>>
    /\ UNCHANGED <<fingerprint, disk_name, i, results, delIdx, confirm, disks>>
    /\ UNCHANGED peer
    /\ UNCHANGED vmFiles

\* --------------------------------------------------------------- clean-up

\* main up to the confirmation test
Cleanup_Confirm ==
    /\ pc = "confirm"
    /\ \E input \in ConfirmInputs :
          /\ confirm' = input
          /\ IF Confirmed(input)
             THEN /\ pc' = "delete"
                  /\ delIdx' = 1
                  /\ UNCHANGED log
             ELSE /\ pc' = "done"
                  /\ log' = Append(log, Line("Aborting cleanup.", <<>>))
                  /\ UNCHANGED delIdx
    /\ UNCHANGED <<script, raised, history, provider, poller>>
    /\ UNCHANGED <<fingerprint, disk_name, i, results, file, disks>>
    /\ UNCHANGED peer
    /\ UNCHANGED vmFiles

DeleteApi(kind) == IF kind = "instance" THEN "instances.delete" ELSE "snapshots.delete"

DeleteScope(kind) == IF kind = "instance" THEN "zone" ELSE "global"

\* Whether the provider holds the resource the deletion names.
Present(d) == IF d.kind = "instance" THEN d.name \in instances ELSE d.name \in snapshots

\* The provider's answers to a delete: 404 exactly when the resource is absent.
DeleteOutcomes(d) == IF Present(d) THEN {200, 500} ELSE {404, 500}

\* delete_instance / delete_snapshot: the print, the delete request, the poller
Delete_Request ==
    /\ pc = "delete"
    /\ LET d == DeletePlan[delIdx]
           printed == <<Line("Deleting", d.name)>>
       IN  \E http \in DeleteOutcomes(d) :
              /\ Request(Call(DeleteApi(d.kind), d.name, 0, NoBody, http, 0))
              /\ IF http # 200
                 THEN /\ DeleteHandler(http, printed)
                      /\ UNCHANGED poller
                 ELSE /\ Submit(DeleteScope(d.kind), DeleteApi(d.kind), d.name, "deleted")
                      /\ log' = log \o printed
                      /\ UNCHANGED <<raised, delIdx>>
    /\ UNCHANGED <<script, provider>>
    /\ UNCHANGED <<fingerprint, disk_name, i, results, file, confirm, disks>>
    /\ UNCHANGED peer
    /\ UNCHANGED vmFiles

\* delete_instance / delete_snapshot after the poller returned
Delete_Done ==
    /\ pc = "deleted"
    /\ NextDeletion(<<Line("Deleted", DeletePlan[delIdx].name)>>)
    /\ UNCHANGED <<script, raised, history, provider, poller>>
    /\ UNCHANGED <<fingerprint, disk_name, i, results, file, confirm, disks>>
    /\ UNCHANGED peer
    /\ UNCHANGED vmFiles

\* ---------------------------------------------------------- specification

Next ==
    \/ EnsureFirewall_List
    \/ EnsureFirewall_Insert
    \/ Wait_Get
    \/ Wait_Check
    \/ CreateInstance_Image
    \/ CreateInstance_Insert
    \/ SetInstanceTags_Get
    \/ SetInstanceTags_SetTags
    \/ OtherActorSetTags
    \/ GetInstanceExternalIp
    \/ ListInstances
    \/ GetBootDiskName
    \/ CreateSnapshot
    \/ TimeCreateClone_Insert
    \/ TimeCreateClone_Return
    \/ WriteTimingMd
    \/ Cleanup_Confirm
    \/ Delete_Request
    \/ Delete_Done
    \/ Vm1Boot

Spec == Init /\ [][Next]_vars

\* ------------------------------------------- two concurrent invocations

\* The second invocation of ensure_allow_5000_firewall: its list request and
\* the existence test on the response.
Peer_List ==
    /\ peer.pc = "fw_list"
    /\ \E http \in Outcomes, items \in RuleLists :
          peer' = [pc |-> IF http # 200 THEN "aborted" ELSE ExistsBranch(items),
                   calls |-> Append(peer.calls,
                                    Call("firewalls.list", <<>>, 0, NoBody, http,
                                         IF http = 200 THEN items ELSE <<>>))]
    /\ UNCHANGED <<script, pc, raised, history, log, provider, poller, locals>>
    /\ UNCHANGED vmFiles

\* The second invocation's insert request.
Peer_Insert ==
    /\ peer.pc = "fw_insert"
    /\ \E http \in Outcomes :
          peer' = [pc |-> IF http # 200 THEN "aborted" ELSE "poll",
                   calls |-> Append(peer.calls,
                                    Call("firewalls.insert", <<>>, 0,
                                         FirewallBody("allow-5000"), http, 0))]
    /\ UNCHANGED <<script, pc, raised, history, log, provider, poller, locals>>
    /\ UNCHANGED vmFiles

\* The second invocation's global poller comes to its end: the operation is
\* DONE and the rule exists, or DONE with an error, or a status request failed.
Peer_Wait ==
    /\ peer.pc = "poll"
    /\ \/ /\ peer' = [peer EXCEPT !.pc = "img_get"]
          /\ fwRules' = fwRules \cup {"allow-5000"}
       \/ /\ peer' = [peer EXCEPT !.pc = "aborted"]
          /\ UNCHANGED fwRules
    /\ UNCHANGED <<script, pc, raised, history, log, instances, snapshots, tags,
                   poller, locals>>
    /\ UNCHANGED vmFiles

\* Two invocations of ensure_allow_5000_firewall (by part1 or part3) run
\* against the same project, each up to the return of the function.
InitRace ==
    /\ Start
    /\ script \in {"part1", "part3"}
    /\ peer = [pc |-> "fw_list", calls |-> <<>>]

NextRace ==
    \/ EnsureFirewall_List
    \/ EnsureFirewall_Insert
    \/ Wait_Get
    \/ Wait_Check
    \/ Peer_List
    \/ Peer_Insert
    \/ Peer_Wait

SpecRace == InitRace /\ [][NextRace]_vars

\* The runs in which the poll loop is followed past MaxPolls passes: part1,
\* part3, the launcher, and the teardown of what part1 left (part2's poller is
\* the zonal poller of part1, part2-final.py:22-40). The process keeps
\* running: a loop that can issue its request, or test the record it got,
\* does so.
InitLive ==
    /\ Init
    /\ script # "part2"
    /\ script = "cleanup" => instances = {<<BaseInstance>>}

NextLive ==
    \/ EnsureFirewall_List
    \/ EnsureFirewall_Insert
    \/ Wait_Get
    \/ Wait_GetBeyond
    \/ Wait_Check
    \/ CreateInstance_Image
    \/ CreateInstance_Insert
    \/ SetInstanceTags_Get
    \/ SetInstanceTags_SetTags
    \/ OtherActorSetTags
    \/ GetInstanceExternalIp
    \/ ListInstances
    \/ Cleanup_Confirm
    \/ Delete_Request
    \/ Delete_Done
    \/ Vm1Boot

SpecLive ==
    /\ InitLive
    /\ [][NextLive]_vars
    /\ WF_vars(Wait_Get \/ Wait_GetBeyond)
    /\ WF_vars(Wait_Check)

\* ----------------------------------------------------------------- claims

Last(q) == q[Len(q)]

InPoller == pc \in {"poll", "poll_check"}

\* The responses before the last one are all unfinished.
EarlierUnfinished == \A k \in 1..(Len(responses) - 1) : responses[k].status # "DONE"

\* C1: in every poller a status record whose status is not DONE makes the
\* poller neither return nor raise; it goes back to the request, and its next
\* step is one more status request for the same operation.
C1_UnfinishedPollsAgain ==
    [][ /\ (pc = "poll_check" /\ Last(responses).status # "DONE" /\ pc' # pc)
            => /\ pc' = "poll"
               /\ curOp' = curOp
               /\ retpc' = retpc
               /\ ret'.kind = "none"
               /\ raised'.type = "none"
               /\ doneOps' = doneOps
        /\ (pc = "poll" /\ pc' # pc)
            => /\ polls' = polls + 1
               /\ lastCall'.api = PollApi(curOp.scope)
               /\ lastCall'.op = curOp.id
               /\ curOp' = curOp ]_vars

C1_Witness ==
    /\ script = "cleanup"
    /\ polls = 2
    /\ Len(responses) = 2
    /\ responses[1].status = "RUNNING"
    /\ responses[1].error # Absent
    /\ lastCall.api = "zoneOperations.get"
    /\ lastCall.op = curOp.id

\* C2: once the poller of part1, part2 or part3 has received its first DONE
\* record and that record has no error, it has returned exactly that record
\* and issued as many status requests as responses up to that record.
C2_ReturnsFirstDone ==
    (script \in {"part1", "part2", "part3"} /\ responses # <<>>)
      => /\ EarlierUnfinished
         /\ Last(responses).status = "DONE" => polls = Len(responses)
         /\ (Last(responses).status = "DONE" /\ Last(responses).error = Absent
               /\ pc # "poll_check")
              => /\ ret.kind = "record"
                 /\ ret.record = Last(responses)
                 /\ curOp.id \in doneOps
                 /\ ~InPoller

C2_Witness ==
    /\ script = "part2"
    /\ pc = "clone_timed"
    /\ Len(responses) = 3
    /\ ret.kind = "record"
    /\ ret.record.status = "DONE"
    /\ ret.record.name = curOp.id

\* C3: once the poller of part1, part2, part3 or of the launcher has received
\* its first DONE record and that record carries an error, it has raised with
\* the error as payload, has returned nothing, and has issued no request after
\* that record.
C3_RaisesOnError ==
    (script # "cleanup" /\ responses # <<>>)
      => /\ EarlierUnfinished
         /\ (Last(responses).status = "DONE" /\ Last(responses).error # Absent)
              => /\ polls = Len(responses)
                 /\ lastCall.op = curOp.id
                 /\ pc \in {"poll_check", "aborted"}
                 /\ ret.kind = "none"
                 /\ pc = "aborted"
                      => /\ raised.type = "Exception"
                         /\ raised.payload = Last(responses).error

C3_Witness ==
    /\ script = "launcher"
    /\ pc = "aborted"
    /\ raised.type = "Exception"
    /\ raised.payload = "QUOTA_EXCEEDED"
    /\ Len(responses) = 2

Range(q) == {q[k] : k \in 1..Len(q)}

Indices(api) == {k \in 1..Len(calls) : calls[k].api = api}

\* C4: ensure_allow_5000_firewall lists the rules first. With "allow-5000" in
\* the list there is no insert and no global poll. Without it the next request
\* is the one insert, with direction INGRESS, protocol tcp and ports ["5000"],
\* its operation is polled with the global poller, and nothing follows the
\* insert before that poller has seen the operation DONE.
C4_FirewallCheckThenCreate ==
    (script \in {"part1", "part3"} /\ calls # <<>>)
      => /\ calls[1].api = "firewalls.list"
         /\ Indices("firewalls.list") = {1}
         /\ (calls[1].http = 200 /\ "allow-5000" \in Range(calls[1].resp))
              => /\ Indices("firewalls.insert") = {}
                 /\ \A k \in 1..Len(ops) : ops[k].scope # "global"
                 /\ lastCall.api # "globalOperations.get"
                 /\ pc # "fw_insert"
         /\ (calls[1].http = 200 /\ "allow-5000" \notin Range(calls[1].resp))
              => /\ Len(calls) = 1 => pc = "fw_insert"
                 /\ Len(calls) > 1
                      => /\ Indices("firewalls.insert") = {2}
                         /\ calls[2].body.direction = "INGRESS"
                         /\ Len(calls[2].body.allowed) = 1
                         /\ calls[2].body.allowed[1].IPProtocol = "tcp"
                         /\ calls[2].body.allowed[1].ports = <<"5000">>
                         /\ calls[2].http = 200
                              => /\ ops[1].kind = "firewalls.insert"
                                 /\ ops[1].scope = "global"
                                 /\ (InPoller /\ curOp.id = 1 /\ polls > 0)
                                      => /\ lastCall.api = "globalOperations.get"
                                         /\ lastCall.op = 1
                                 /\ (Len(calls) > 2 \/ pc = "img_get")
                                      => 1 \in doneOps

C4_Witness ==
    /\ script = "part3"
    /\ pc = "img_get"
    /\ Len(calls) = 2
    /\ calls[1].resp = <<"default-allow-ssh">>
    /\ calls[2].api = "firewalls.insert"
    /\ polls = 2
    /\ 1 \in doneOps

\* C5: the fingerprint in the body of a setTags request is the one the
\* instances.get of the same instance returned, and that get is the request
\* the script executed immediately before the setTags, status polls counted.
C5_FingerprintJustRead ==
    [][ (Len(calls') = Len(calls) + 1 /\ Last(calls').api = "instances.setTags")
          => /\ lastCall.api = "instances.get"
             /\ lastCall.http = 200
             /\ lastCall.target = Last(calls').target
             /\ Last(calls').body.fingerprint = lastCall.resp ]_vars

C5_Witness ==
    /\ lastCall.api = "instances.setTags"
    /\ lastCall.body.fingerprint = 1
    /\ lastCall.http = 200
    /\ calls[Len(calls) - 1].api = "instances.get"
    /\ calls[Len(calls) - 1].resp = 1

\* The disk the claim names: the first one flagged boot, else the first one;
\* its name is the last segment of its source URL.
FlaggedBoot(ds) == {k \in 1..Len(ds) : ds[k].boot}

ClaimedBootDisk(ds) ==
    IF FlaggedBoot(ds) = {} THEN ds[1]
    ELSE ds[CHOOSE k \in FlaggedBoot(ds) : \A m \in FlaggedBoot(ds) : k <= m]

ClaimedDiskName(ds) == << Last(ClaimedBootDisk(ds).source) >>

AllSourced(ds) == ds # <<>> /\ \A k \in 1..Len(ds) : ds[k].source # <<>>

\* C6: for a non-empty disk list whose disks all have a source URL,
\* get_boot_disk_name raises nothing and resolves to the name of the first disk
\* flagged boot, or of the first disk when none is flagged, and the
\* createSnapshot request names exactly that disk.
C6_BootDiskResolution ==
    (script = "part2" /\ AllSourced(disks))
      => /\ raised.type # "RuntimeError"
         /\ disk_name = ClaimedDiskName(disks)
         /\ Len(calls) > 1
              => /\ calls[2].api = "disks.createSnapshot"
                 /\ calls[2].target = ClaimedDiskName(disks)
                 /\ Indices("disks.createSnapshot") = {2}

C6_Witness ==
    /\ script = "part2"
    /\ disks = << [boot |-> FALSE,
                   source |-> <<"projects", "p", "zones", "z", "disks", "d1">>],
                  [boot |-> TRUE,
                   source |-> <<"projects", "disks", "zones", "z", "disks", "d2">>] >>
    /\ lastCall.api = "disks.createSnapshot"
    /\ lastCall.target = <<"d2">>
    /\ lastCall.http = 200

\* The step executes a request (a status poll or any other).
RequestMade == polls' = polls + 1 \/ Len(calls') = Len(calls) + 1

DeleteAnswered(http) ==
    /\ script = "cleanup"
    /\ pc = "delete"
    /\ Len(calls') = Len(calls) + 1
    /\ Last(calls').http = http

\* C7: in the teardown a delete request answered 404 raises nothing, prints
\* the resource as already deleted, submits no operation and issues no status
\* poll, and main goes on to the next resource (or finishes after the last);
\* a delete request that is accepted is the only one for its resource, its
\* operation is polled, and the resource is reported deleted only after a
\* status poll of that operation answered DONE.
C7_TeardownIdempotent ==
    [][ /\ DeleteAnswered(404)
            => /\ raised'.type = "none"
               /\ Last(calls').target = DeletePlan[delIdx].name
               /\ Len(log') >= Len(log) + 2
               /\ log'[Len(log) + 2]
                    = Line("not found (already deleted)", DeletePlan[delIdx].name)
               /\ ops' = ops
               /\ polls' = polls
               /\ lastCall'.api = DeleteApi(DeletePlan[delIdx].kind)
               /\ delIdx < Len(DeletePlan) => (pc' = "delete" /\ delIdx' = delIdx + 1)
               /\ delIdx = Len(DeletePlan) => pc' = "done"
        /\ DeleteAnswered(200)
            => /\ pc' = "poll"
               /\ Len(ops') = Len(ops) + 1
               /\ curOp' = Last(ops')
               /\ curOp'.target = DeletePlan[delIdx].name
               /\ curOp'.kind = Last(calls').api
               /\ polls' = 0
        /\ (script = "cleanup" /\ Len(log') > Len(log)
              /\ log'[Len(log) + 1].msg = "Deleted")
            => /\ log'[Len(log) + 1].name = curOp.target
               /\ curOp.target = DeletePlan[delIdx].name
               /\ Cardinality({k \in 1..Len(calls) : calls[k].target = curOp.target}) = 1
               /\ Last(calls).target = curOp.target
               /\ polls >= 1
               /\ polls = Len(responses)
               /\ lastCall.op = curOp.id
               /\ Last(responses).status = "DONE"
               /\ EarlierUnfinished ]_vars

C7_Witness ==
    /\ script = "cleanup"
    /\ Len(log) >= 4
    /\ log[2] = Line("Deleted", CloneName(1))
    /\ log[4] = Line("not found (already deleted)", CloneName(2))
    /\ Len(ops) = 1
    /\ Len(calls) = 2
    /\ calls[2].http = 404
    /\ raised.type = "none"

\* C8: in the teardown an HTTP error other than 404, on a delete request or on
\* a status poll, ends the script with that HttpError: the resource is not
\* reported (neither deleted nor already deleted), no delete request has been
\* issued for a later resource, and nothing is executed afterwards.
C8_OtherErrorsReRaised ==
    [][ /\ (script = "cleanup" /\ RequestMade /\ lastCall'.http \notin {200, 404})
            => /\ pc' = "aborted"
               /\ raised'.type = "HttpError"
               /\ raised'.status = lastCall'.http
               /\ delIdx' = delIdx
               /\ \A k \in (Len(log) + 1)..Len(log') : log'[k].msg = "Deleting"
               /\ Len(calls') = delIdx
               /\ \A k \in 1..Len(calls') : calls'[k].target = DeletePlan[k].name
        /\ (script = "cleanup" /\ pc = "aborted")
            => /\ calls' = calls
               /\ polls' = polls
               /\ log' = log
               /\ pc' = pc ]_vars

C8_Witness ==
    /\ script = "cleanup"
    /\ pc = "aborted"
    /\ raised.type = "HttpError"
    /\ raised.status = 500
    /\ lastCall.api = "zoneOperations.get"
    /\ delIdx = 2
    /\ log = <<Line("Deleting", CloneName(1)), Line("Deleted", CloneName(1)),
               Line("Deleting", CloneName(2))>>

\* C9: a run of part2 that reaches its end has executed exactly three clone
\* inserts, for clone-1, clone-2, clone-3 in that order, holds one timing
\* record per clone, and has written a file with exactly one header row and
\* one data row per clone, in the same order (after the title line, with the
\* delimiter row of the table between header and data).
C9_ThreeClonesTimed ==
    (script = "part2" /\ pc = "done")
      => /\ Indices("instances.insert") = {3, 4, 5}
         /\ Len(calls) = 5
         /\ \A k \in 1..3 : calls[k + 2].target = CloneName(k) /\ calls[k + 2].http = 200
         /\ Len(results) = 3
         /\ \A k \in 1..3 :
               results[k].instance = CloneName(k) /\ results[k].real_seconds >= 0
         /\ Len(file) = 6
         /\ {k \in 1..Len(file) : file[k].kind = "header"} = {2}
         /\ {k \in 1..Len(file) : file[k].kind = "row"} = {4, 5, 6}
         /\ \A k \in 1..3 :
               /\ file[k + 3].instance = CloneName(k)
               /\ file[k + 3].real_seconds = results[k].real_seconds

C9_Witness ==
    /\ script = "part2"
    /\ pc = "done"
    /\ Len(file) = 6
    /\ file[4].real_seconds = 0
    /\ file[5].real_seconds = 1
    /\ file[6].real_seconds = 2

\* Operations the script submitted and no poller has seen DONE.
InFlight == {k \in 1..Len(ops) : ops[k].id \notin doneOps}

\* C10: at every point of a script's run at most one operation it submitted
\* has not been observed DONE.
C10_OneInFlight == Cardinality(InFlight) <= 1

\* C11: in the teardown too, a delete operation that reaches DONE carrying an
\* error ends the script with an exception: once the poller is through with
\* that record the script has aborted, the resource is not reported deleted,
\* and no later deletion has been started.
C11_TeardownFailFast ==
    (script = "cleanup" /\ responses # <<>> /\ Last(responses).status = "DONE"
       /\ Last(responses).error # Absent /\ pc # "poll_check")
      => /\ pc = "aborted"
         /\ raised.type = "Exception"
         /\ Line("Deleted", curOp.target) \notin Range(log)
         /\ Last(calls).target = curOp.target

\* The step leaves the poll loop.
PollerExits == InPoller /\ pc' \notin {"poll", "poll_check"}

\* The provider answers a status request with a record that is not DONE.
AnsweredUnfinished ==
    /\ Wait_Get \/ Wait_GetBeyond
    /\ pc' = "poll_check"
    /\ Last(responses').status # "DONE"

\* C12 as stated: the poller terminates (returns or raises) only when the
\* provider has answered a status request with DONE.
C12_ExitsOnlyOnDone ==
    [][ PollerExits => (responses' # <<>> /\ Last(responses').status = "DONE") ]_vars

\* C12, amended: the poller has no cap, deadline or timeout. It leaves its loop
\* only on a DONE record or because the status request itself failed with an
\* HTTP error; whenever it is about to poll, the request can be issued, however
\* many passes have gone by; and it stays in the loop forever only if the
\* provider answers with unfinished records forever: if the provider reports
\* DONE at some point, the poller terminates.
C12_NoCapTerminatesOnDone ==
    /\ [][ PollerExits
             => \/ pc = "poll_check" /\ Last(responses).status = "DONE"
                \/ pc = "poll" /\ lastCall'.http # 200 /\ lastCall'.op = curOp.id ]_vars
    /\ [](pc = "poll" => ENABLED (Wait_Get \/ Wait_GetBeyond))
    /\ ([]<>(~InPoller) \/ []<><<AnsweredUnfinished>>_vars)

C12_Witness ==
    /\ script = "part1"
    /\ pc = "poll"
    /\ polls = MaxPolls
    /\ \A k \in 1..Len(responses) : responses[k].status # "DONE"
    /\ Len(responses) = MaxPolls
    /\ curOp.kind = "instances.insert"

\* What one invocation of ensure_allow_5000_firewall has done, given the
\* requests it made and where it stands: it lists once; a list that holds
\* "allow-5000" is followed by no insert; a list that does not is followed by
\* exactly one insert, whatever the project's rules have become since, and by
\* no further list or insert, whatever the insert's fate.
EnsureRan(cs, at) ==
    cs # <<>>
      => /\ cs[1].api = "firewalls.list"
         /\ \A k \in 2..Len(cs) : cs[k].api # "firewalls.list"
         /\ (cs[1].http = 200 /\ "allow-5000" \in Range(cs[1].resp))
              => Len(cs) = 1 /\ at = "img_get"
         /\ (cs[1].http = 200 /\ "allow-5000" \notin Range(cs[1].resp))
              => /\ Len(cs) <= 2
                 /\ Len(cs) = 1 => at = "fw_insert"
                 /\ Len(cs) = 2
                      => /\ cs[2].api = "firewalls.insert"
                         /\ cs[2].body.name = "allow-5000"
                         /\ cs[2].http # 200 => at = "aborted"
         /\ cs[1].http # 200 => Len(cs) = 1 /\ at = "aborted"

\* C13: with two concurrent invocations of ensure_allow_5000_firewall, each
\* decides on its own list response alone: neither looks at the rules again
\* before its insert, repeats its list, or retries, so both can have an insert
\* for "allow-5000" submitted at once (the witness).
C13_CheckThenCreateNotAtomic ==
    /\ EnsureRan(calls, pc)
    /\ EnsureRan(peer.calls, peer.pc)

C13_Witness ==
    /\ "allow-5000" \notin fwRules
    /\ Len(calls) = 2
    /\ Len(peer.calls) = 2
    /\ calls[2].api = "firewalls.insert"
    /\ peer.calls[2].api = "firewalls.insert"
    /\ calls[2].http = 200
    /\ peer.calls[2].http = 200
    /\ pc = "poll"
    /\ peer.pc = "poll"

\* The step is set_instance_tags' setTags request.
SetTagsRequested ==
    /\ script = "part1"
    /\ pc = "tags_set"
    /\ Len(calls') = Len(calls) + 1
    /\ Last(calls').api = "instances.setTags"

\* C14: when another client has changed the instance's tags since
\* set_instance_tags read the fingerprint, the setTags request carries the
\* fingerprint read, now stale, and the provider rejects it; the script aborts
\* with that HttpError, submits nothing and executes no further request, and
\* the other client's tags stay as they are. The script changes the tags only
\* with a request that carries the instance's current fingerprint.
C14_StaleFingerprintAborts ==
    [][ /\ (SetTagsRequested /\ fingerprint # tags.fingerprint)
            => /\ Last(calls').body.fingerprint = fingerprint
               /\ Last(calls').http # 200
               /\ pc' = "aborted"
               /\ raised'.type = "HttpError"
               /\ raised'.status = Last(calls').http
               /\ tags' = tags
               /\ ops' = ops
        /\ (SetTagsRequested /\ tags' # tags)
            => Last(calls').body.fingerprint = tags.fingerprint
        /\ (script = "part1" /\ pc = "aborted")
            => /\ calls' = calls
               /\ lastCall' = lastCall
               /\ tags' = tags ]_vars

C14_Witness ==
    /\ script = "part1"
    /\ pc = "aborted"
    /\ raised.status = 412
    /\ lastCall.api = "instances.setTags"
    /\ lastCall.body.fingerprint = 0
    /\ calls[Len(calls) - 1].api = "instances.get"
    /\ calls[Len(calls) - 1].resp = 0
    /\ tags = [items |-> {"other"}, fingerprint |-> 1]

Apis(q) == [k \in 1..Len(q) |-> q[k].api]

IsPrefix(a, b) == Len(a) <= Len(b) /\ a = SubSeq(b, 1, Len(a))

\* The requests of part1's main in the claimed order (status polls aside):
\* firewall (list, and insert when the rule is missing), VM (image lookup,
\* insert), tag (get, setTags), read (get), list.
Part1Order(ruleMissing) ==
    (IF ruleMissing THEN <<"firewalls.list", "firewalls.insert">>
                    ELSE <<"firewalls.list">>)
      \o <<"images.getFromFamily", "instances.insert", "instances.get",
           "instances.setTags", "instances.get", "instances.list">>

\* The operation of kind `kind` has been seen DONE by the poller.
SeenDone(kind) == \E k \in 1..Len(ops) : ops[k].kind = kind /\ ops[k].id \in doneOps

\* C15: part1's requests follow the order firewall, create VM, tag VM, read
\* VM, list VMs, a finished run having made them all; and whenever a request
\* that reads or changes the new instance (instances.get, setTags) has been
\* made, the poller had seen the create operation DONE and the instance exists;
\* the read after the tagging is made only after the tag operation was seen
\* DONE.
C15_Part1Order ==
    script = "part1"
      => /\ \E ruleMissing \in BOOLEAN :
               /\ IsPrefix(Apis(calls), Part1Order(ruleMissing))
               /\ pc = "done" => Apis(calls) = Part1Order(ruleMissing)
         /\ (Indices("instances.get") \cup Indices("instances.setTags") # {})
              => /\ SeenDone("instances.insert")
                 /\ <<BaseInstance>> \in instances
                 /\ \A k \in Indices("instances.get") \cup Indices("instances.setTags") :
                       /\ calls[k].target = <<BaseInstance>>
                       /\ \E j \in 1..(k - 1) :
                             calls[j].api = "instances.insert" /\ calls[j].http = 200
         /\ Cardinality(Indices("instances.get")) = 2 => SeenDone("instances.setTags")
         /\ Indices("instances.list") # {} => Cardinality(Indices("instances.get")) = 2

C15_Witness ==
    /\ script = "part1"
    /\ pc = "done"
    /\ Len(calls) = 8
    /\ calls[2].api = "firewalls.insert"
    /\ Len(ops) = 3
    /\ doneOps = {1, 2, 3}
    /\ polls = MaxPolls

Keys(items) == [k \in 1..Len(items) |-> items[k].key]

\* C16: part3 submits at most one instance insert, for VM-1, with the metadata
\* items startup-script, vm1-launcher-py and vm2-startup-script (exactly one
\* when it finishes), and none for VM-2. The launcher's insert is for VM-2 and
\* is made only after VM-1's boot script stored the vm1-launcher-py and
\* vm2-startup-script attributes of VM-1's metadata; VM-2's metadata is the
\* single item startup-script, holding the vm2-startup-script payload that
\* part3 attached.
C16_ChainProvisioning ==
    /\ script = "part3"
         => /\ Cardinality(Indices("instances.insert")) <= 1
            /\ pc = "done" => Cardinality(Indices("instances.insert")) = 1
            /\ \A k \in Indices("instances.insert") :
                  /\ calls[k].target = <<Vm1Name>>
                  /\ Keys(calls[k].body.metadata)
                       = <<"startup-script", "vm1-launcher-py", "vm2-startup-script">>
            /\ \A k \in 1..Len(calls) : calls[k].target # <<Vm2Name>>
            /\ vmFiles = NoFiles
    /\ script = "launcher"
         => /\ Cardinality(Indices("instances.insert")) <= 1
            /\ calls # <<>>
                 => /\ vmFiles.launcher = "vm1_launcher_py"
                    /\ vmFiles.vm2_startup = "vm2_startup_script"
            /\ \A k \in Indices("instances.insert") :
                  /\ calls[k].target = <<Vm2Name>>
                  /\ calls[k].body.metadata
                       = <<Item("startup-script", "vm2_startup_script")>>
                  /\ Vm1Metadata[3] = Item("vm2-startup-script",
                                           calls[k].body.metadata[1].value)
    /\ script \notin {"part3", "launcher"}
         => \A k \in 1..Len(calls) : calls[k].target \notin {<<Vm1Name>>, <<Vm2Name>>}

C16_Witness ==
    /\ script = "launcher"
    /\ pc = "done"
    /\ Len(calls) = 3
    /\ calls[2].api = "instances.insert"
    /\ calls[2].body.metadata[1].value = "vm2_startup_script"
    /\ <<Vm2Name>> \in instances

\* C17: after a confirmed run of the teardown that finished without raising,
\* none of the instances the lab's scripts create (the base instance, the
\* three clones, VM-1, VM-2) exists any more, nor does the snapshot.
C17_TeardownDeletesAll ==
    (script = "cleanup" /\ pc = "done" /\ Confirmed(confirm))
      => /\ instances \cap InstanceNames = {}
         /\ SnapshotName \notin snapshots

\* part2's instances.get answered with these disks and no clone begun.
Resolved == script = "part2" /\ calls # <<>> /\ calls[1].http = 200 /\ i = 0

\* C18: when the instance has no disks, or the disk chosen as boot disk has no
\* source URL, get_boot_disk_name raises a RuntimeError and part2 ends there:
\* the instances.get is its only request, there is no createSnapshot and no
\* insert, no operation, no timing file, and the provider is as it was.
C18_MissingDataRaisedFirst ==
    (Resolved /\ (disks = <<>> \/ ClaimedBootDisk(disks).source = <<>>))
      => /\ pc = "aborted"
         /\ raised.type = "RuntimeError"
         /\ raised.payload = IF disks = <<>>
                             THEN "No disks found on instance"
                             ELSE "Could not find boot disk 'source' URL"
         /\ Apis(calls) = <<"instances.get">>
         /\ lastCall = calls[1]
         /\ ops = <<>>
         /\ polls = 0
         /\ results = <<>>
         /\ file = NoFile
         /\ instances = {<<BaseInstance>>}
         /\ snapshots = {}

C18_Witness ==
    /\ script = "part2"
    /\ pc = "aborted"
    /\ raised.type = "RuntimeError"
    /\ Len(disks) = 2
    /\ ~disks[1].boot
    /\ disks[1].source # <<>>
    /\ disks[2].boot
    /\ disks[2].source = <<>>

MutatingApis ==
    {"firewalls.insert", "instances.insert", "instances.setTags", "disks.createSnapshot"}

DeletingApis == {"instances.delete", "snapshots.delete"}

\* The request that failed is the last one the script executed.
FailedLast ==
    CASE raised.type = "HttpError" -> lastCall.http = raised.status
      [] raised.type = "Exception" ->
            /\ lastCall.api = PollApi(curOp.scope)
            /\ lastCall.op = curOp.id
            /\ Last(responses).error = raised.payload
      [] raised.type = "RuntimeError" -> lastCall = calls[1] /\ Len(calls) = 1
      [] raised.type = "BootScriptError" -> calls = <<>>
      [] OTHER -> FALSE

\* C19: part1, part2 and part3 (and the launcher) submit each mutating request
\* at most once per resource and never a delete; once a script has failed
\* (an operation's error, an HTTP error, missing data) the failure came from
\* the last request it executed and it can take no further step; and no step
\* of a script removes a firewall rule, an instance or a snapshot, so what a
\* failing run created stays.
C19_NoRetryNoCompensation ==
    /\ [](script # "cleanup"
            => /\ \A j, k \in 1..Len(calls) :
                     (j # k /\ calls[j].api \in MutatingApis
                        /\ calls[j].api = calls[k].api)
                       => calls[j].target # calls[k].target
               /\ \A k \in 1..Len(calls) : calls[k].api \notin DeletingApis
               /\ pc = "aborted" => (FailedLast /\ ~ENABLED Next))
    /\ [][ script # "cleanup"
             => /\ fwRules \subseteq fwRules'
                /\ instances \subseteq instances'
                /\ snapshots \subseteq snapshots' ]_vars

C19_Witness ==
    /\ script = "part2"
    /\ pc = "aborted"
    /\ raised.type = "Exception"
    /\ i = 2
    /\ CloneName(1) \in instances
    /\ CloneName(2) \notin instances
    /\ SnapshotName \in snapshots
    /\ Len(calls) = 4

\* C20: in part2 every clone insert comes after the createSnapshot request of
\* the same run, whose operation the poller has seen DONE (the snapshot
\* exists); the n-th insert is for clone-n, made only after the operations of
\* clone-1 .. clone-(n-1) were each seen DONE (those clones exist); and every
\* clone's boot disk is built from global/snapshots/base-snapshot-<instance>,
\* the snapshot that request named.
C20_ClonesInOrderFromSnapshot ==
    script = "part2"
      => \A k \in Indices("instances.insert") :
            LET n == k - 2
            IN  /\ n \in 1..CloneCount
                /\ calls[2].api = "disks.createSnapshot"
                /\ calls[2].http = 200
                /\ calls[2].body.name = SnapshotName
                /\ ops[1].kind = "disks.createSnapshot"
                /\ 1 \in doneOps
                /\ SnapshotName \in snapshots
                /\ calls[k].target = CloneName(n)
                /\ calls[k].body.name = CloneName(n)
                /\ calls[k].body.source = <<"global", "snapshots", calls[2].body.name>>
                /\ \A m \in 1..(n - 1) :
                      /\ calls[m + 2].target = CloneName(m)
                      /\ calls[m + 2].http = 200
                      /\ ops[m + 1].kind = "instances.insert"
                      /\ ops[m + 1].target = CloneName(m)
                      /\ ops[m + 1].id \in doneOps
                      /\ CloneName(m) \in instances
                /\ calls[k].http = 200
                     => /\ Len(ops) >= n + 1
                        /\ ops[n + 1].target = CloneName(n)
                        /\ (ops[n + 1].id \notin doneOps)
                             => (k = Len(calls) /\ (InPoller \/ pc = "aborted"))

C20_Witness ==
    /\ script = "part2"
    /\ pc = "poll"
    /\ Len(calls) = 5
    /\ calls[5].target = CloneName(3)
    /\ calls[5].http = 200
    /\ doneOps = {1, 2, 3}
    /\ polls = 1
    /\ responses[1].status = "RUNNING"

\* The input is the word yes, in any mix of upper and lower case.
EqualsYesIgnoringCase(input) ==
    /\ Len(input) = 3
    /\ input[1] \in {"y", "Y"}
    /\ input[2] \in {"e", "E"}
    /\ input[3] \in {"s", "S"}

\* The deletions in the order the teardown is said to attempt them.
ClaimedDeletions ==
    << [api |-> "instances.delete", target |-> CloneName(1)],
       [api |-> "instances.delete", target |-> CloneName(2)],
       [api |-> "instances.delete", target |-> CloneName(3)],
       [api |-> "instances.delete", target |-> <<BaseInstance>>],
       [api |-> "snapshots.delete", target |-> SnapshotName] >>

\* The delete requests issued so far, in order.
Attempted == [k \in 1..Len(calls) |-> [api |-> calls[k].api, target |-> calls[k].target]]

\* The deletion started last has finished: its delete request was answered
\* 404 and nothing was requested after it, or the request was accepted and
\* the operation it returned is the one that was polled, where either a status
\* poll of that operation answered DONE and the poller is through with it, or
\* the last status poll of that operation answered 404.
PreviousFinished ==
    LET prev == Last(calls)
    IN  \/ prev.http = 404 /\ lastCall = prev
        \/ /\ prev.http = 200
           /\ curOp = Last(ops)
           /\ curOp.target = prev.target
           /\ curOp.kind = prev.api
           /\ lastCall.op = curOp.id
           /\ lastCall.api = PollApi(curOp.scope)
           /\ \/ /\ lastCall.http = 200
                 /\ Last(responses).status = "DONE"
                 /\ curOp.id \in doneOps
              \/ lastCall.http = 404

\* C21: the teardown is gated by the confirmation and ordered. Unless the
\* input equals "yes" ignoring case it issues no request at all (no delete, no
\* status poll, no operation submitted) and ends after "Aborting cleanup.";
\* once confirmed, the delete requests it issues are, in order, a prefix of
\* clone-1, clone-2, clone-3, base instance, snapshot, each resource attempted
\* once, and a run that reaches its end has attempted all five; and a delete
\* request after the first is issued only when the previous deletion has
\* finished: its operation was observed DONE, or it ended with a 404.
C21_TeardownGatedOrdered ==
    /\ [](script = "cleanup"
            => /\ ~EqualsYesIgnoringCase(confirm)
                    => /\ calls = <<>>
                       /\ lastCall = NoCall
                       /\ polls = 0
                       /\ ops = <<>>
                       /\ pc \in {"confirm", "done"}
                       /\ pc = "done" => log = <<Line("Aborting cleanup.", <<>>)>>
               /\ IsPrefix(Attempted, ClaimedDeletions)
               /\ (EqualsYesIgnoringCase(confirm) /\ pc = "done")
                    => /\ Attempted = ClaimedDeletions
                       /\ PreviousFinished
                       /\ Last(log) = Line("Cleanup complete.", <<>>))
    /\ [][ (script = "cleanup" /\ Len(calls') = Len(calls) + 1)
             => /\ EqualsYesIgnoringCase(confirm)
                /\ calls # <<>> => PreviousFinished ]_vars

C21_Witness ==
    /\ script = "cleanup"
    /\ confirm = <<"Y","e","S">>
    /\ pc = "done"
    /\ Len(calls) = 5
    /\ calls[1].http = 200
    /\ calls[2].http = 404
    /\ calls[5].http = 200
    /\ Line("Deleted", CloneName(1)) \in Range(log)
    /\ Line("Deleted", SnapshotName) \in Range(log)
    /\ Last(log) = Line("Cleanup complete.", <<>>)

=============================================================================
